---- MODULE Spec2Model ----
(***************************************************************************)
(* VRChat Log Monitor (Source/VRChatLogMonitor.py): the Tail unit          *)
(* (LogMonitor.run / process_line), the Notification Queue and the         *)
(* Forwarder (DiscordBotClient), the resolver (get_latest_log_file), the    *)
(* wall clock, the source application that appends to the source log, and  *)
(* the close action of the window.                                         *)
(*                                                                         *)
(* Text is a sequence of one-character strings.  A record text             *)
(* f"{timestamp} - {line}" is the pair [ts, line]; a timestamp keeps the   *)
(* calendar date of the clock reading it was formatted from (the time of   *)
(* day plays no part in any property below).  The clock is read twice per  *)
(* dispatch (lines 141 and 46); today is the date of the latest reading,   *)
(* and each reading may find that midnight has passed since the one before.*)
(* The field src of a record is a ghost: the offset in the source log at   *)
(* which its line was read.                                                *)
(***************************************************************************)
EXTENDS Integers, Sequences, FiniteSets, Bags, TLC

\* ------------------------------------------------------------- bounds
MaxLog == 2          \* characters the source application appends once the log is open
MaxDay == 2          \* calendar days the clock runs through
MaxReady == 2        \* times the Notifier reports readiness in a run
MaxMtime == 2        \* modification times of the files of log_dir

\* ------------------------------------------------------ configuration
NL == "\n"
Alphabet == {"a", "b", NL}

NoColor == <<"-">>   \* the event has no "color" entry
Green == <<"#", "0", "0", "8", "0", "0", "0">>
Named == <<"g", "r", "e", "e", "n">>
DefaultColor == <<"#", "F", "F", "F", "F", "F", "F">>

\* What the source application has written to its log by the time the Tail
\* unit opens it: a complete line and the beginning of the next one, each
\* holding an event key.
Preexisting == << "a", NL, "b" >>

Events(first, second) == << [name |-> <<"b">>, color |-> first],
                            [name |-> <<"a">>, color |-> second] >>

\* config.json as loaded at start-up: the events mapping in insertion order
\* (event "b" before event "a"), discord.enabled, whether discord.bot_token
\* is present, and whether discord.channel_id resolves to a channel of the
\* client.
Configs ==
    { [events |-> Events(Named, NoColor), enabled |-> TRUE,  token |-> TRUE,  channel |-> TRUE],
      [events |-> Events(Green, NoColor), enabled |-> FALSE, token |-> TRUE,  channel |-> TRUE],
      [events |-> Events(Green, Named),   enabled |-> TRUE,  token |-> FALSE, channel |-> TRUE],
      [events |-> Events(NoColor, Green), enabled |-> TRUE,  token |-> TRUE,  channel |-> FALSE] }

VARIABLES
    config,      \* the loaded configuration
    today,       \* the calendar date at the latest reading of the clock
    dir,         \* the files of log_dir: name, whether it matches log_pattern, mtime
    path,        \* LogMonitor.log_file_path
    log,         \* content of the source log
    stopEv,      \* LogMonitor._stop_event
    destroyed,   \* root.destroy() was called: the text widget is gone
    tailPc,      \* position of the LogMonitor thread
    pos,         \* read position of the handle f
    attachLen,   \* ghost: length of the source log when f was opened
    cur,         \* locals of process_line: line, event index, timestamp
    outFiles,    \* content of each day-named output file
    sink,        \* entries inserted into the text widget
    queue,       \* discord_message_queue
    enqueued,    \* ghost: every item ever put on the queue
    attempts,    \* ghost: every item the Forwarder took up, in order
    errors,      \* number of errors the Forwarder has reported (line 84)
    botPc,       \* position of the Discord thread
    closed,      \* Client.is_closed()
    tasks        \* the send_messages_from_queue tasks created by on_ready (a bag)

vars == << config, today, dir, path, log, stopEv, destroyed, tailPc, pos, attachLen,
           cur, outFiles, sink, queue, enqueued, attempts, errors,
           botPc, closed, tasks >>

tailVars == << tailPc, path, pos, attachLen, cur, today >>
dispVars == << outFiles, sink, queue, enqueued >>
fwdVars == << attempts, errors, botPc, closed, tasks >>
envVars == << config, dir, log >>
uiVars == << stopEv, destroyed >>

Days == 1..MaxDay
None == "None"
Names == {"f1", "f2", "f3"}
Files == [name : Names, match : BOOLEAN, mtime : 1..MaxMtime]

\* The directories log_dir may be: no two files have the same name.
Dirs == { d \in SUBSET Files : \A f, g \in d : f.name = g.name => f = g }

\* log_dir at start-up (a file that does not match log_pattern), and the log
\* file the source application creates in it.
OtherFile == [name |-> "f1", match |-> FALSE, mtime |-> MaxMtime]
LogFile == [name |-> "f2", match |-> TRUE, mtime |-> 1]
NoTs == [date |-> 0]
NoCur == [line |-> <<>>, idx |-> 0, ts |-> NoTs, src |-> 0]
NoItem == [text |-> [ts |-> NoTs, line |-> <<>>], color |-> <<>>, src |-> 0]

\* ------------------------------------------------------ pure helpers
Last(s) == s[Len(s)]

SeqToSet(s) == { s[i] : i \in 1..Len(s) }

Texts(s) == [i \in 1..Len(s) |-> s[i].text]

\* `key in line` of line 140: literal substring test.
Contains(line, key) ==
    \E i \in 0..(Len(line) - Len(key)) : SubSeq(line, i + 1, i + Len(key)) = key

\* f.readline() with the handle at offset p of content: up to and including
\* the next line terminator, or up to the end of the content when there is none.
ReadLine(content, p) ==
    LET ends == { i \in (p + 1)..Len(content) : content[i] = NL }
    IN  IF ends = {} THEN SubSeq(content, p + 1, Len(content))
        ELSE SubSeq(content, p + 1, CHOOSE i \in ends : \A j \in ends : i <= j)

\* (faulty variant) the handle is left at the start of the file
SeekStart(content) == 0

\* f.seek(0, os.SEEK_END)
SeekEnd(content) == Len(content)

\* (faulty variant) the loop dispatches for the event at index from without testing
\* whether its name occurs in the line
NextMatchNoTest(line, from) == IF from <= Len(config.events) THEN from ELSE 0

\* The for loop of process_line from the event at index from on: the index of
\* the first event whose name occurs in the line, 0 when the loop runs out.
NextMatch(line, from) ==
    LET hits == { i \in from..Len(config.events) : Contains(line, config.events[i].name) }
    IN  IF hits = {} THEN 0 ELSE CHOOSE i \in hits : \A j \in hits : i <= j

\* (faulty variant) no break: the loop goes on to the next event that matches
ContinueLoop(line, idx) == NextMatch(line, idx + 1)

\* What the loop does after a dispatch: break (line 153), so no further event.
AfterDispatch(line, idx) == 0

\* datetime.datetime.now(): the dates a reading of the clock may return.
Now == today..MaxDay

\* strftime("%Y-%m-%d %H:%M:%S") of line 141, and the date it carries
Timestamp(now) == [date |-> now]
DateOf(ts) == ts.date

\* get_output_log_filename() with the clock reading now: the day that names
\* the file {output_log_prefix}{YYYY-MM-DD}.txt
get_output_log_filename(now) == now

\* (faulty variant) the default of setup_text_tags is used for the item
EventColorBlack(idx) ==
    IF config.events[idx].color = NoColor THEN << "b", "l", "a", "c", "k" >>
    ELSE config.events[idx].color

\* event_data.get("color", "#FFFFFF")
EventColor(idx) ==
    IF config.events[idx].color = NoColor THEN DefaultColor ELSE config.events[idx].color

\* (faulty variant) items are only queued once the Notifier is ready
EnqueueGateWhenReady == config.enabled /\ botPc = "ready"

\* (faulty variant) items are queued whatever discord.enabled says
EnqueueGateOpen == TRUE

\* the gate of enqueue_discord_message (line 51)
EnqueueGate == config.enabled

\* hex_color.lstrip('#')
LStripHash(s) ==
    LET keep == { i \in 1..Len(s) : s[i] # "#" }
    IN  IF keep = {} THEN <<>>
        ELSE SubSeq(s, CHOOSE i \in keep : \A j \in keep : i <= j, Len(s))

HexDigits == { "0", "1", "2", "3", "4", "5", "6", "7", "8", "9",
               "A", "B", "C", "D", "E", "F", "a", "b", "c", "d", "e", "f" }

\* int(hex_color.lstrip('#'), 16): raises ValueError unless every character
\* left is a hexadecimal digit and there is at least one.
ColorRaises(hex) ==
    LET s == LStripHash(hex) IN s = <<>> \/ \E i \in 1..Len(s) : s[i] \notin HexDigits

\* start_discord_bot, which main() runs first, up to client.run: where the
\* Discord thread stands with the configuration c.
start_discord_bot(c) == IF c.token THEN "connecting" ELSE "returned"

\* ----------------------------------------------------------- Init
\* The state after main() started both threads, with log_dir holding the
\* files fs and the LogMonitor thread at pc.
Start(fs, pc) ==
    /\ config \in Configs
    /\ today = 1
    /\ dir = fs
    /\ path = None
    /\ log = <<>>
    /\ stopEv = FALSE
    /\ destroyed = FALSE
    /\ tailPc = pc
    /\ pos = 0
    /\ attachLen = 0
    /\ cur = NoCur
    /\ outFiles = [d \in Days |-> <<>>]
    /\ sink = <<>>
    /\ queue = <<>>
    /\ enqueued = <<>>
    /\ attempts = <<>>
    /\ errors = 0
    /\ botPc = start_discord_bot(config)
    /\ closed = FALSE
    /\ tasks = EmptyBag

Init == Start({OtherFile}, "resolve")

\* ---------------------------------------------------- environment
\* The source application creates its log file and starts writing to it.
SourceCreate ==
    /\ LogFile \notin dir
    /\ dir' = dir \cup {LogFile}
    /\ log' = Preexisting
    /\ UNCHANGED << config, uiVars, tailVars, dispVars, fwdVars >>

\* The source application writes one more character to its log.  (What it
\* writes before the Tail unit opens the log is part of Preexisting.)
SourceAppend ==
    /\ LogFile \in dir
    /\ tailPc \notin {"resolve", "resolving", "open"}
    /\ Len(log) < Len(Preexisting) + MaxLog
    /\ \E c \in Alphabet : log' = Append(log, c)
    /\ UNCHANGED << config, dir, uiVars, tailVars, dispVars, fwdVars >>

\* ------------------------------------------------ the close action
\* LogMonitor.stop(), called first by on_closing
stop ==
    /\ ~stopEv
    /\ stopEv' = TRUE
    /\ UNCHANGED << envVars, destroyed, tailVars, dispVars, fwdVars >>

\* root.destroy(), called next by on_closing
destroy ==
    /\ stopEv
    /\ ~destroyed
    /\ destroyed' = TRUE
    /\ UNCHANGED << envVars, stopEv, tailVars, dispVars, fwdVars >>

\* on_closing, a step at a time: the Tail unit runs on while it executes
on_closing == stop \/ destroy

\* ---------------------------------------------------- the Tail unit
\* (faulty variant) every file of the directory is listed, matching or not
listdir(d) == { f.name : f \in d }

\* glob.glob(pattern): the names of the files of d that match log_pattern
glob(d) == { f.name : f \in { g \in d : g.match } }

\* os.path.getmtime(name) in directory d
getmtime(d, name) == (CHOOSE f \in d : f.name = name).mtime

\* get_latest_log_file() on the directory d: the values it may return.  None
\* when nothing matches; otherwise max(matching_files, key=getmtime), which
\* is the first file of greatest mtime in the order glob listed them, an
\* order the file system chooses.
get_latest_log_file(d) ==
    IF glob(d) = {} THEN {None}
    ELSE { n \in glob(d) : \A m \in glob(d) : getmtime(d, m) <= getmtime(d, n) }

\* (faulty variant) the thread gives up after the first call that finds nothing
AfterNotFoundGiveUp == "returned"

\* Where the thread goes when the resolver returned None: time.sleep(1), then
\* the loop test again.
AfterNotFound == "resolve"

\* The test of the first loop of run() (line 110) and, when it ends the
\* loop, the check of line 115: stop is set and no path was found.
TailResolve ==
    /\ tailPc = "resolve"
    /\ tailPc' = IF stopEv THEN "returned" ELSE "resolving"
    /\ UNCHANGED << envVars, uiVars, path, pos, attachLen, cur, today, dispVars, fwdVars >>

\* Lines 111-115: the resolver is called; with a path the loop is left for
\* the open, with None the thread sleeps and is back at the loop test.
TailResolving ==
    /\ tailPc = "resolving"
    /\ \E p \in get_latest_log_file(dir) :
          /\ path' = p
          /\ tailPc' = IF p # None THEN "open" ELSE AfterNotFound
    /\ UNCHANGED << envVars, uiVars, pos, attachLen, cur, today, dispVars, fwdVars >>

\* open(...) and f.seek(0, os.SEEK_END)
TailOpen ==
    /\ tailPc = "open"
    /\ pos' = SeekEnd(log)
    /\ attachLen' = Len(log)
    /\ tailPc' = "read"
    /\ UNCHANGED << envVars, uiVars, path, cur, today, dispVars, fwdVars >>

\* (faulty variant) the record is queued and shown before it is written
DispatchOrderWriteLast == << "enqueue", "insert", "write" >>

\* The order of the dispatch steps of process_line: the append to the output
\* file, the insert into the text widget, the enqueue.
DispatchOrder == << "write", "insert", "enqueue" >>

StepIndex(step) == CHOOSE k \in 1..Len(DispatchOrder) : DispatchOrder[k] = step

\* Lines 140-142: the event at index idx matched; the clock, last read as
\* `from`, is read for the timestamp and the dispatch starts.
Stamp(line, idx, src, from) ==
    /\ tailPc' = Head(DispatchOrder)
    /\ \E now \in from..MaxDay :
          /\ today' = now
          /\ cur' = [line |-> line, idx |-> idx, ts |-> Timestamp(now), src |-> src]

\* Control after the dispatch step `step` returned normally, the clock having
\* last been read as `now`.
Advance(step, now) ==
    IF StepIndex(step) < Len(DispatchOrder)
    THEN /\ tailPc' = DispatchOrder[StepIndex(step) + 1]
         /\ cur' = cur
         /\ today' = now
    ELSE IF AfterDispatch(cur.line, cur.idx) = 0
    THEN /\ tailPc' = "read"
         /\ cur' = NoCur
         /\ today' = now
    ELSE Stamp(cur.line, AfterDispatch(cur.line, cur.idx), cur.src, now)

\* (faulty variant) the end of the file ends the loop
AfterEofLeave == "done"

\* Where the thread goes when readline returned the empty string:
\* time.sleep(0.1) and continue, the loop test again.
AfterEof == "read"

\* The test of the second loop of run() (line 123).
TailRead ==
    /\ tailPc = "read"
    /\ tailPc' = IF stopEv THEN "done" ELSE "readline"
    /\ UNCHANGED << envVars, uiVars, path, pos, attachLen, cur, today, dispVars, fwdVars >>

\* Lines 124-128: f.readline(), then either time.sleep(0.1) at the end of
\* the file (the thread is back at the loop test), or process_line up to the
\* timestamp of the first matching event.
TailReadline ==
    /\ tailPc = "readline"
    /\ LET line == ReadLine(log, pos)
       IN  IF line = <<>>
           THEN /\ tailPc' = AfterEof
                /\ UNCHANGED << pos, cur, today >>
           ELSE /\ pos' = pos + Len(line)
                /\ IF NextMatch(line, 1) = 0
                   THEN /\ tailPc' = "read"
                        /\ UNCHANGED << cur, today >>
                   ELSE Stamp(line, NextMatch(line, 1), pos, today)
    /\ UNCHANGED << envVars, uiVars, path, attachLen, dispVars, fwdVars >>

FileRecord == [ts |-> cur.ts, line |-> cur.line, src |-> cur.src]
RecordText == [ts |-> cur.ts, line |-> cur.line]

\* (faulty variant) the error is swallowed and the dispatch goes on
AfterWriteErrorGoOn == "insert"

\* Where the thread goes when the open or the write of lines 145-146 raises:
\* no handler in process_line or run, the exception ends the thread.
AfterWriteError == "write_failed"

\* Lines 144-146: the file name from a reading of the clock, then the append.
\* The open or the write may raise OSError, which nothing catches: the
\* thread ends.
TailWrite ==
    /\ tailPc = "write"
    /\ \/ \E now \in Now :
             /\ outFiles' = [outFiles EXCEPT
                                ![get_output_log_filename(now)] = Append(@, FileRecord)]
             /\ Advance("write", now)
       \/ /\ tailPc' = AfterWriteError
          /\ UNCHANGED << outFiles, cur, today >>
    /\ UNCHANGED << envVars, uiVars, path, pos, attachLen, sink, queue, enqueued, fwdVars >>

\* Lines 148-149: insert and see.  On a destroyed widget the call raises,
\* which nothing catches, or it never returns: either way the thread takes
\* no further step.
TailInsert ==
    /\ tailPc = "insert"
    /\ IF destroyed
       THEN /\ tailPc' = "insert_failed"
            /\ UNCHANGED << sink, cur, today >>
       ELSE /\ sink' = Append(sink, [text |-> RecordText,
                                     tag |-> config.events[cur.idx].name,
                                     src |-> cur.src])
            /\ Advance("insert", today)
    /\ UNCHANGED << envVars, uiVars, path, pos, attachLen, outFiles, queue, enqueued, fwdVars >>

\* (faulty variant) the newest item is taken first
QueueGetLast(q) == [item |-> Last(q), rest |-> SubSeq(q, 1, Len(q) - 1)]

\* (faulty variant) the item is read and left on the queue
QueuePeek(q) == [item |-> Head(q), rest |-> q]

\* queue.Queue.put and get_nowait
QueuePut(q, x) == Append(q, x)
QueueGet(q) == [item |-> Head(q), rest |-> Tail(q)]

\* Lines 151-152 and enqueue_discord_message.
TailEnqueue ==
    /\ tailPc = "enqueue"
    /\ LET item == [text |-> RecordText, color |-> EventColor(cur.idx), src |-> cur.src]
       IN  IF EnqueueGate
           THEN /\ queue' = QueuePut(queue, item)
                /\ enqueued' = Append(enqueued, item)
           ELSE UNCHANGED << queue, enqueued >>
    /\ Advance("enqueue", today)
    /\ UNCHANGED << envVars, uiVars, path, pos, attachLen, outFiles, sink, fwdVars >>

\* ---------------------------------------------------- the Forwarder
\* (faulty variant) the result of get_channel is not tested
ChannelAssumed == TRUE

\* self.get_channel(channel_id) is not None
ChannelFound == config.channel

\* A task of the bag: where it stands ("loop": at the while test, "send":
\* suspended in channel.send, "done": returned) and the item it is sending.
TaskAt(pc, item) == SetToBag({[pc |-> pc, item |-> item]})
Idle(pc) == TaskAt(pc, NoItem)

\* The Notifier reports itself ready (again, after a reconnect): on_ready
\* creates a send_messages_from_queue task, which runs lines 65-70 without
\* suspending (wait_until_ready returns at once, the client being ready).
OnReady ==
    /\ botPc \in {"connecting", "ready"}
    /\ ~closed
    /\ BagCardinality(tasks) < MaxReady
    /\ botPc' = "ready"
    /\ tasks' = tasks (+) Idle(IF ChannelFound THEN "loop" ELSE "done")
    /\ UNCHANGED << envVars, uiVars, tailVars, dispVars, attempts, errors, closed >>

\* The tasks of bag b once every task at the while test has made that test
\* with the client closed, and returned.
RECURSIVE LoopsExit(_)
LoopsExit(b) ==
    IF BagIn([pc |-> "loop", item |-> NoItem], b)
    THEN LoopsExit((b (-) Idle("loop")) (+) Idle("done"))
    ELSE b

\* The client is closed (the connection is given up) after it was ready.  A
\* task at the while test can then only find is_closed() true and return: it
\* does so here.
BotClose ==
    /\ botPc = "ready"
    /\ ~closed
    /\ closed' = TRUE
    /\ tasks' = LoopsExit(tasks)
    /\ UNCHANGED << envVars, uiVars, tailVars, dispVars, attempts, errors, botPc >>

\* (faulty variant) the error ends the task
AfterErrorReturn == "done"

\* Where the task goes after the except clause of line 83 logged an error:
\* back to the while test.
AfterError == "loop"

\* (faulty variant) an empty queue ends the task
AfterEmptyReturn == "done"

\* Where the task goes when get_nowait raised queue.Empty: asyncio.sleep(1),
\* then the while test again.
AfterEmpty == "loop"

\* One turn of the while loop of a task up to its first suspension: the
\* is_closed test, get_nowait, then either the sleep on an empty queue (the
\* task is back at the loop head when it returns), or the color conversion
\* and the call of channel.send.
TaskLoop ==
    /\ BagIn([pc |-> "loop", item |-> NoItem], tasks)
    /\ IF closed
       THEN /\ tasks' = (tasks (-) Idle("loop")) (+) Idle("done")
            /\ UNCHANGED << queue, attempts, errors >>
       ELSE IF queue = <<>>
       THEN /\ tasks' = (tasks (-) Idle("loop")) (+) Idle(AfterEmpty)
            /\ UNCHANGED << queue, attempts, errors >>
       ELSE /\ queue' = QueueGet(queue).rest
            /\ attempts' = Append(attempts, QueueGet(queue).item)
            /\ IF ColorRaises(QueueGet(queue).item.color)
               THEN /\ errors' = errors + 1
                    /\ tasks' = (tasks (-) Idle("loop")) (+) Idle(AfterError)
               ELSE /\ tasks' = (tasks (-) Idle("loop")) (+) TaskAt("send", QueueGet(queue).item)
                    /\ UNCHANGED errors
    /\ UNCHANGED << envVars, uiVars, tailVars, outFiles, sink, enqueued, botPc, closed >>

Sending == { t \in BagToSet(tasks) : t.pc = "send" }

\* await channel.send(embed=embed) of a task returns or raises
TaskSendDone ==
    \E t \in Sending :
       /\ \/ /\ tasks' = (tasks (-) SetToBag({t})) (+) Idle("loop")
             /\ UNCHANGED errors
          \/ /\ errors' = errors + 1
             /\ tasks' = (tasks (-) SetToBag({t})) (+) Idle(AfterError)
       /\ UNCHANGED << envVars, uiVars, tailVars, dispVars, attempts, botPc, closed >>

\* ------------------------------------------------------------ Next
Next ==
    \/ SourceCreate
    \/ SourceAppend
    \/ on_closing
    \/ TailResolve
    \/ TailResolving
    \/ TailOpen
    \/ TailRead
    \/ TailReadline
    \/ TailWrite
    \/ TailInsert
    \/ TailEnqueue
    \/ OnReady
    \/ BotClose
    \/ TaskLoop
    \/ TaskSendDone

Spec == Init /\ [][Next]_vars

\* The steps of the LogMonitor thread.
TailStep ==
    \/ TailResolve
    \/ TailResolving
    \/ TailOpen
    \/ TailRead
    \/ TailReadline
    \/ TailWrite
    \/ TailInsert
    \/ TailEnqueue

\* The operating system schedules the LogMonitor thread: when it can take a
\* step (every sleep, read, write and call of it returns or raises), it
\* eventually does.
TailFairSpec == Spec /\ WF_vars(TailStep)

\* The configurations in which the Forwarder consumes: notification enabled,
\* a bot token, a channel that resolves.
FwdInit == Init /\ config.enabled /\ config.token /\ ChannelFound

\* The event loop of the Discord thread runs every task that can run (a task
\* at its while test, asyncio.sleep having returned), and every call of
\* channel.send returns or raises.
FwdFairSpec ==
    /\ FwdInit
    /\ [][Next]_vars
    /\ WF_vars(TaskLoop)
    /\ WF_vars(TaskSendDone)

\* The resolver alone: one call of get_latest_log_file by the LogMonitor
\* thread, on any directory.
ResolverInit == \E d \in Dirs : Start(d, "resolving")
ResolverNext == TailResolving
ResolverSpec == ResolverInit /\ [][ResolverNext]_vars

\* =========================================================== claims
FileRecords == UNION { SeqToSet(outFiles[d]) : d \in Days }
KeyNames == { config.events[i].name : i \in 1..Len(config.events) }
Dispatching == tailPc \in SeqToSet(DispatchOrder)

\* The name of the first event, in configured order, that occurs in line.
FirstKey(line) ==
    LET i == CHOOSE i \in 1..Len(config.events) :
                 /\ Contains(line, config.events[i].name)
                 /\ \A j \in 1..(i - 1) : ~Contains(line, config.events[j].name)
    IN  config.events[i].name

OncePerLine(s) == \A i, j \in 1..Len(s) : s[i].src = s[j].src => i = j

\* C1: a line fires for at most one key, the first key in configured order
\* that occurs in it: every Display Sink entry is tagged with that key, the
\* dispatch in progress is for that key, and no line has two records in the
\* output files, two entries in the sink or two items among those enqueued.
C1_FirstKeyWins ==
    /\ \A e \in SeqToSet(sink) : e.tag = FirstKey(e.text.line)
    /\ Dispatching => config.events[cur.idx].name = FirstKey(cur.line)
    /\ \A d1, d2 \in Days : \A i \in 1..Len(outFiles[d1]) : \A j \in 1..Len(outFiles[d2]) :
          outFiles[d1][i].src = outFiles[d2][j].src => d1 = d2 /\ i = j
    /\ OncePerLine(sink)
    /\ OncePerLine(enqueued)

\* A line holding both keys, the one configured second standing first in the
\* line, was dispatched to all three sinks.
C1_Witness ==
    \E e \in SeqToSet(sink) :
       /\ Len(e.text.line) >= 2
       /\ e.text.line[1] = "a"
       /\ e.text.line[2] = "b"
       /\ e.tag = << "b" >>
       /\ \E r \in FileRecords : r.src = e.src
       /\ \E q \in SeqToSet(enqueued) : q.src = e.src

NoKeyIn(line) == \A k \in KeyNames : ~Contains(line, k)

\* C2: when the Tail unit reads a line that holds no configured key, nothing
\* is dispatched: the output files, the Display Sink and the Notification
\* Queue are as before, and the Tail unit is back at its loop test.
C2_NoKeyNoEffect ==
    [][ (tailPc = "readline" /\ pos' # pos /\ NoKeyIn(SubSeq(log, pos + 1, pos')))
        => (UNCHANGED << outFiles, sink, queue, enqueued >> /\ tailPc' = "read") ]_vars

\* The Tail unit has read a line without a key, and nothing was dispatched.
C2_Witness ==
    /\ tailPc = "read"
    /\ pos > attachLen
    /\ NoKeyIn(SubSeq(log, attachLen + 1, pos))
    /\ FileRecords = {}
    /\ sink = <<>>
    /\ queue = <<>>

Written(src, text) ==
    \E r \in FileRecords : r.src = src /\ [ts |-> r.ts, line |-> r.line] = text

\* C3: write, then insert, then enqueue.  Every Display Sink entry and every
\* item ever enqueued has its record in an output file, every item ever
\* enqueued has its entry in the sink, and when the insert or the enqueue is
\* about to run, or the insert has failed, the record is written.
C3_WrittenFirst ==
    /\ \A e \in SeqToSet(sink) : Written(e.src, e.text)
    /\ \A q \in SeqToSet(enqueued) :
          /\ Written(q.src, q.text)
          /\ \E e \in SeqToSet(sink) : e.src = q.src /\ e.text = q.text
    /\ tailPc \in {"insert", "enqueue", "insert_failed"} => Written(cur.src, RecordText)
    /\ tailPc = "enqueue" => \E e \in SeqToSet(sink) : e.src = cur.src

\* One line went through all three steps, and the insert of a later line
\* failed with its record written.
C3_Witness ==
    /\ enqueued # <<>>
    /\ tailPc = "insert_failed"
    /\ Written(cur.src, RecordText)
    /\ \A e \in SeqToSet(sink) : e.src # cur.src

\* C4: the Forwarder takes the items up in the order the Tail unit enqueued
\* them: the items taken up so far, followed by the items still queued, are
\* exactly the items enqueued, in enqueue order, each once.
C4_FifoAttempts == attempts \o queue = enqueued

\* Two items were enqueued and taken up, the second while the first was
\* still being sent by another task.
C4_Witness ==
    /\ Len(attempts) >= 2
    /\ attempts[1].src < attempts[2].src
    /\ Cardinality(Sending) = 2

\* C5: when the handling of an item raises, the item is dropped and the task
\* goes on: the step that reports the error puts nothing on the queue (the
\* queue only loses the item taken, the items enqueued are unchanged), ends no
\* task, and leaves a task at the while test, ready for the next item.
C5_ErrorDropsItem ==
    [][ errors' # errors =>
          /\ queue' = queue \/ (queue # <<>> /\ queue' = Tail(queue))
          /\ enqueued' = enqueued
          /\ \A q \in SeqToSet(queue') : q \notin SeqToSet(attempts')
          /\ CopiesIn([pc |-> "done", item |-> NoItem], tasks')
               = CopiesIn([pc |-> "done", item |-> NoItem], tasks)
          /\ BagIn([pc |-> "loop", item |-> NoItem], tasks') ]_vars

\* The first item's color could not be converted, the error was reported,
\* and an item enqueued after it was taken up all the same.
C5_Witness ==
    /\ errors >= 1
    /\ Len(attempts) >= 2
    /\ ColorRaises(attempts[1].color)
    /\ ~ColorRaises(attempts[2].color)

\* The text of the record being dispatched, when its enqueue is still to come.
Pending == IF tailPc = "enqueue" THEN << RecordText >> ELSE <<>>

\* C6: until the Notifier has reported itself ready no item is dequeued, and
\* the items enqueued meanwhile wait in the queue in enqueue order, none
\* lost: with notification enabled the queue holds one item for every
\* Display Sink entry, in order, but for the entry whose enqueue is pending.
C6_NothingBeforeReady ==
    botPc # "ready" =>
       /\ attempts = <<>>
       /\ tasks = EmptyBag
       /\ queue = enqueued
       /\ config.enabled => Texts(queue) \o Pending = Texts(sink)

\* Two items wait in the queue, the Notifier not being ready yet.
C6_Witness ==
    /\ botPc = "connecting"
    /\ Len(queue) >= 2

\* C7: discord.enabled gates the enqueue.  Disabled, the queue is empty and
\* nothing was ever enqueued; enabled, the items enqueued are one per Display
\* Sink entry, in order, but for the entry whose enqueue is pending.  The
\* enqueue step can always be taken when the Tail unit is at it.
C7_EnabledGatesEnqueue ==
    /\ ~config.enabled => queue = <<>> /\ enqueued = <<>>
    /\ config.enabled => Texts(enqueued) \o Pending = Texts(sink)
    /\ tailPc = "enqueue" => ENABLED TailEnqueue

\* Notification disabled: a matched line went through the enqueue step with a
\* Forwarder task running, and the queue is empty.
C7_Witness ==
    /\ ~config.enabled
    /\ sink # <<>>
    /\ tailPc = "read"
    /\ BagIn([pc |-> "loop", item |-> NoItem], tasks)

\* C8 (as claimed): every record is in the output file named after the date
\* of its own timestamp.
C8_FileOfRecordDate ==
    \A d \in Days : \A r \in SeqToSet(outFiles[d]) : DateOf(r.ts) = d

\* C9 (as claimed): every line readline hands to process_line ends with the
\* line terminator.
C9_CompleteLines ==
    [][ (tailPc = "readline" /\ pos' # pos) => log[pos'] = NL ]_vars

Within(r) ==
    /\ r.src >= attachLen
    /\ r.src + Len(r.line) <= pos
    /\ r.line # <<>>
    /\ r.line = SubSeq(log, r.src + 1, r.src + Len(r.line))

\* C10: nothing that was in the source log when it was opened is dispatched,
\* and nothing is read twice: every record of the output files, the Display
\* Sink and the queue is a stretch of the log that starts at or after the
\* length the log had at the open and ends at or before the read position,
\* and two records of the output files never overlap.
C10_OnlyNewContent ==
    /\ \A r \in FileRecords : Within(r)
    /\ \A e \in SeqToSet(sink) : Within([src |-> e.src, line |-> e.text.line])
    /\ \A q \in SeqToSet(enqueued) : Within([src |-> q.src, line |-> q.text.line])
    /\ \A r1, r2 \in FileRecords :
          r1.src < r2.src => r1.src + Len(r1.line) <= r2.src
    /\ \A r1, r2 \in FileRecords : r1.src = r2.src => r1 = r2

\* The log held event keys when it was opened, and a line appended later was
\* dispatched.
C10_Witness ==
    /\ attachLen = Len(Preexisting)
    /\ ~NoKeyIn(SubSeq(log, 1, attachLen))
    /\ \E r \in FileRecords : \E e \in SeqToSet(sink) : e.src = r.src

\* The Tail unit has not got a path from the resolver (yet, or ever).
Unresolved == tailPc \in {"resolve", "resolving", "returned"}

\* Nothing was opened, read or dispatched.
Untouched ==
    /\ path = None
    /\ pos = 0
    /\ attachLen = 0
    /\ cur = NoCur
    /\ FileRecords = {}
    /\ sink = <<>>
    /\ enqueued = <<>>

\* While no file matches log_pattern the Tail unit is in its first loop, or
\* has returned from it, and nothing was opened, read or dispatched.
C11_Idle ==
    /\ glob(dir) = {} => Unresolved
    /\ Unresolved => Untouched

\* The first loop polls: from the loop test the thread calls the resolver
\* unless stop is set, and then it returns; from a call that finds nothing it
\* is back at the loop test; it leaves the loop for the open only with a file
\* that matches.
C11_Polling ==
    /\ (tailPc = "resolve" /\ tailPc' # tailPc)
          => tailPc' = (IF stopEv THEN "returned" ELSE "resolving")
    /\ (tailPc = "resolving" /\ glob(dir) = {} /\ path' = path /\ dir' = dir
          /\ stopEv' = stopEv /\ log' = log /\ UNCHANGED << dispVars, fwdVars >>)
          => tailPc' \in {"resolving", "resolve"}
    /\ (tailPc # "open" /\ tailPc' = "open") => path' \in glob(dir)
    /\ tailPc = "returned" => tailPc' = "returned"

\* C11 (as claimed): no file, no reading and no dispatch; the resolver is
\* polled until a file appears or stop is signalled; and once stop is
\* signalled with no file resolved so far, the Tail unit opens no source file.
C11_NoOpenAfterStop ==
    /\ []C11_Idle
    /\ [][ C11_Polling /\ ((stopEv /\ path = None) => tailPc' # "open") ]_vars

\* C11 (amended): as above, but once stop is signalled with no file resolved
\* so far the Tail unit starts no further resolver call, reads no line and
\* dispatches nothing; it opens a source file only when the resolver call
\* that was under way returns one, and then leaves at the next loop test.
C11_PollsUntilResolvedOrStop ==
    /\ []C11_Idle
    /\ [][ /\ C11_Polling
           /\ (stopEv /\ path = None) => tailPc' \notin {"readline"} \cup SeqToSet(DispatchOrder)
           /\ (stopEv /\ path = None /\ tailPc # "resolving") => tailPc' \notin {"resolving", "open"}
           /\ (stopEv /\ tailPc \in {"resolve", "resolving", "open", "read"} /\ pos = attachLen)
                => /\ tailPc' \in {"resolve", "returned", "open", "read", "done"} \cup {tailPc}
                   /\ tailPc # "open" => pos' = pos
                   /\ UNCHANGED << cur, dispVars >> ]_vars

\* Stop was signalled with no file resolved, and the Tail unit returned
\* untouched although a matching file has appeared.
C11_Witness ==
    /\ tailPc = "returned"
    /\ stopEv
    /\ glob(dir) # {}
    /\ Untouched

Matching == { f \in dir : f.match }

\* C12: once the call of get_latest_log_file has returned, its result is None
\* exactly when no file of the directory matches the pattern, and otherwise
\* the name of a matching file whose modification time is at least that of
\* every matching file.
C12_NewestOrNone ==
    tailPc # "resolving" =>
       /\ path = None <=> Matching = {}
       /\ path # None =>
             \E f \in Matching :
                /\ f.name = path
                /\ \A g \in Matching : g.mtime <= f.mtime
       /\ tailPc = (IF path = None THEN "resolve" ELSE "open")

\* The call returned the newer of two matching files, a file that does not
\* match being as new.
C12_Witness ==
    /\ tailPc = "open"
    /\ \E f, g \in Matching : f.name = path /\ g.mtime < f.mtime
    /\ \E f \in Matching : \E h \in dir \ Matching : f.name = path /\ h.mtime >= f.mtime

\* The LogMonitor thread has ended: it returned, or an exception ended it.
Terminated == tailPc \in {"returned", "done", "write_failed", "insert_failed"}

\* C13: the Tail unit stops cooperatively.  The end of the file never ends
\* it (from a readline that returns nothing it is back at the loop test, and
\* it only ends without stop being set when a dispatch step raises); once stop
\* is set it starts no further readline, so it reads at most the line of the
\* readline under way; and once stop is set it eventually ends.
C13_CooperativeStop ==
    /\ [][ /\ (~Terminated /\ Terminated')
                => (stopEv \/ tailPc' \in {"write_failed", "insert_failed"})
           /\ (tailPc = "readline" /\ ReadLine(log, pos) = <<>>)
                => (tailPc' \in {"read", "readline"} /\ pos' = pos)
           /\ (stopEv /\ tailPc # "readline")
                => (tailPc' # "readline" /\ (tailPc # "open" => pos' = pos)) ]_vars
    /\ stopEv ~> Terminated

\* The Tail unit dispatched a line, read on to the end of the file, and ended
\* on the stop signal.
C13_Witness ==
    /\ tailPc = "done"
    /\ stopEv
    /\ FileRecords # {}
    /\ pos = Len(log)

\* C14: every item is consumed at most once and never put back.  No item was
\* taken up twice, an item taken up is no longer on the queue, an item being
\* sent was taken up and is being sent by one task only; and whatever a step
\* adds to the queue is an item that was never enqueued before, so neither a
\* failed nor a successful attempt returns its item to the queue.
C14_ConsumedOnce ==
    /\ [] /\ OncePerLine(attempts)
          /\ \A q \in SeqToSet(queue) : \A a \in SeqToSet(attempts) : q.src # a.src
          /\ \A t \in Sending : t.item \in SeqToSet(attempts) /\ CopiesIn(t, tasks) = 1
    /\ [][ /\ \A q \in SeqToSet(queue') :
                 q \in SeqToSet(queue) \/ \A e \in SeqToSet(enqueued) : e.src # q.src
           /\ \A i \in 1..Len(attempts) : Len(attempts') >= i /\ attempts'[i] = attempts[i]
           /\ errors' # errors => \A q \in SeqToSet(queue') : q \in SeqToSet(queue) ]_vars

\* Two items were taken up, an attempt failed, and the queue is empty with no
\* send under way: the failed item was not put back.
C14_Witness ==
    /\ Len(attempts) >= 2
    /\ errors >= 1
    /\ \A a \in SeqToSet(attempts) : ~ColorRaises(a.color)
    /\ queue = <<>>
    /\ Sending = {}

\* The line read at offset src of the source log, as far as line goes.
AsRead(src, line) ==
    /\ line # <<>>
    /\ Len(line) <= Len(ReadLine(log, src))
    /\ line = SubSeq(ReadLine(log, src), 1, Len(line))
    /\ Last(ReadLine(log, src)) = NL /\ Len(line) = Len(ReadLine(log, src)) => Last(line) = NL

\* The color configured for the event named key, #FFFFFF when it has none.
ConfiguredColor(key) ==
    LET ev == CHOOSE ev \in SeqToSet(config.events) : ev.name = key
    IN  IF ev.color = NoColor THEN DefaultColor ELSE ev.color

\* C15: the three sinks receive the same record text.  A Display Sink entry
\* has the text of the record written to the output file for its line, which
\* is one timestamp followed by the line as it was read from the source log
\* (with its terminator when it had one), and is tagged with the matched
\* key; an enqueued item has the text of the Display Sink entry of its line
\* and the color configured for that key, #FFFFFF when none is configured.
C15_SameText ==
    /\ \A r \in FileRecords : AsRead(r.src, r.line) /\ DateOf(r.ts) \in Days
    /\ \A e \in SeqToSet(sink) :
          /\ \E r \in FileRecords : r.src = e.src /\ e.text = [ts |-> r.ts, line |-> r.line]
          /\ e.tag = FirstKey(e.text.line)
    /\ \A q \in SeqToSet(enqueued) :
          /\ \E e \in SeqToSet(sink) : e.src = q.src /\ e.text = q.text
          /\ q.color = ConfiguredColor(FirstKey(q.text.line))

\* A terminated line matched an event that has no color configured: it is in
\* an output file, in the Display Sink and enqueued with #FFFFFF.
C15_Witness ==
    \E q \in SeqToSet(enqueued) :
       /\ q.color = DefaultColor
       /\ Last(q.text.line) = NL
       /\ \E r \in FileRecords : r.src = q.src /\ r.line = q.text.line
       /\ \E e \in SeqToSet(sink) : e.src = q.src /\ e.tag = << "a" >>

\* C16: a failed append stays local to the Tail unit.  The step in which the
\* append fails ends the LogMonitor thread and touches nothing of the
\* Forwarder; from then on the thread stays ended, reads and dispatches
\* nothing, and the line has no Display Sink entry and no item; a Forwarder
\* task at its loop test can still take up the item at the head of the queue.
C16_WriteFailureLocal ==
    /\ [] (tailPc = "write_failed" =>
            /\ \A e \in SeqToSet(sink) : e.src # cur.src
            /\ \A q \in SeqToSet(enqueued) : q.src # cur.src
            /\ (~closed /\ queue # <<>> /\ BagIn([pc |-> "loop", item |-> NoItem], tasks))
                  => ENABLED (TaskLoop /\ attempts' = Append(attempts, Head(queue))))
    /\ [][ /\ (tailPc = "write" /\ tailPc' # "write" /\ outFiles' = outFiles)
                => (tailPc' = "write_failed" /\ UNCHANGED << sink, queue, enqueued, fwdVars >>)
           /\ tailPc = "write_failed"
                => (tailPc' = "write_failed" /\ UNCHANGED << pos, cur, outFiles, sink, enqueued >>)
           /\ (tailPc = "write_failed" /\ queue' # queue)
                => (queue # <<>> /\ queue' = Tail(queue)
                    /\ attempts' = Append(attempts, Head(queue))) ]_vars

\* The append failed for a line while the item of an earlier line is being
\* sent.
C16_Witness ==
    /\ tailPc = "write_failed"
    /\ \E t \in Sending : t.item.src < cur.src

\* C17: with no bot token, or with a channel that does not resolve, the
\* Forwarder never takes an item and sends nothing: without a token the
\* Discord thread has returned and no task exists, without a channel every
\* task has returned; every item enqueued is still on the queue.  The Tail
\* unit is not affected: it can take its next step whenever it has not
\* ended, every record written has its Display Sink entry once the insert was
\* done, and with discord.enabled every entry has its item once the enqueue
\* was done.
C17_ForwarderOffHostUnaffected ==
    (~config.token \/ ~config.channel) =>
       /\ attempts = <<>>
       /\ Sending = {}
       /\ \A t \in BagToSet(tasks) : t.pc = "done"
       /\ ~config.token => (botPc = "returned" /\ tasks = EmptyBag)
       /\ queue = enqueued
       /\ ~Terminated => ENABLED TailStep
       /\ \A r \in FileRecords :
             (r.src = cur.src /\ tailPc \in {"insert", "insert_failed"})
                \/ \E e \in SeqToSet(sink) : e.src = r.src
       /\ config.enabled => Texts(queue) \o Pending = Texts(sink)

\* The channel did not resolve: the task created by on_ready has returned,
\* and two matched lines were written, shown and enqueued since.
C17_Witness ==
    /\ ~config.channel
    /\ botPc = "ready"
    /\ BagIn([pc |-> "done", item |-> NoItem], tasks)
    /\ Len(queue) >= 2
    /\ Len(sink) >= 2
    /\ tailPc = "read"

\* The offsets in the source log at which a dispatched line can start.
ItemSrcs == Len(Preexisting)..(Len(Preexisting) + MaxLog - 1)

\* C18: every item on the queue is eventually attempted.  Whenever the item
\* of the line read at offset k is on the queue, the Notifier has reported
\* itself ready and the channel resolves, the item is eventually taken up,
\* or the client is closed.
C18_EventuallyAttempted ==
    \A k \in ItemSrcs :
       ((\E q \in SeqToSet(queue) : q.src = k) /\ botPc = "ready" /\ ChannelFound)
          ~> ((\E a \in SeqToSet(attempts) : a.src = k) \/ closed)

\* An item was taken up, a task is sleeping on the empty queue, the client
\* is open, and the Tail unit is about to enqueue another item.
C18_Witness ==
    /\ attempts # <<>>
    /\ queue = <<>>
    /\ ~closed
    /\ BagIn([pc |-> "loop", item |-> NoItem], tasks)
    /\ Sending = {}
    /\ tailPc = "enqueue"
    /\ EnqueueGate

\* C19 (as claimed): once the close action has completed (stop, then
\* root.destroy()), the Tail unit executes no insert on the Display Sink.
C19_NoInsertAfterClose ==
    [][ destroyed => ~(tailPc = "insert" /\ tailPc' # "insert") ]_vars

\* The send_messages_from_queue tasks that have not returned.
ActiveLoops == BagCardinality(tasks) - CopiesIn([pc |-> "done", item |-> NoItem], tasks)

\* C20 (as claimed): at most one consumer loop of the Forwarder is active at
\* any time.
C20_SingleConsumer == ActiveLoops <= 1

====
